---------------------------- MODULE Spec2Model ----------------------------
(* commit-critic: the git extractor (git_ops.py), the LLM client and its   *)
(* response parsing (llm.py) and the two commands (main.py), as state      *)
(* machines.  A Python str is a sequence of one-character strings; the NUL *)
(* character is written "NUL".                                             *)
EXTENDS Integers, Sequences, FiniteSets, TLC

VARIABLES
    \* ---- get_commits (git_ops.py)
    repo,          \* the commits of the repository, newest first (environment)
    num,           \* n, the number of commits requested
    gpc,           \* position in get_commits
    log,           \* what run_git returned for git log
    commits,       \* the list get_commits returns
    gexc,          \* the exception that left get_commits, "none" if none
    \* ---- llm_analyze (llm.py)
    lcommits,      \* the commits argument
    batch_size,    \* the batch_size argument
    lpc,           \* position in llm_analyze
    batches,       \* the list of batches
    idx,           \* index of the batch in hand (1-based), len+1 past the loop
    text,          \* the response text in hand
    items,         \* the parsed response in hand
    all_critiques, \* the accumulating result
    lexc,          \* the exception that left llm_analyze, "none" if none
    requests,      \* history: the batch index of every request sent, in order
    outcomes,      \* history: per handled batch, how it ended and what it parsed
    \* ---- cmd_analyze (main.py)
    apc,           \* position in cmd_analyze
    url,           \* args.url, "none" when absent
    tmp_dir,       \* the local tmp_dir of cmd_analyze, "none" when unset
    dirs,          \* the temporary directories that exist on disk
    stats,         \* the RepoStats handed to print_analysis, NoStats before
    aexc,          \* the exception that left cmd_analyze, "none" if none
    \* ---- cmd_write / llm_write (main.py, llm.py)
    wpc,           \* position in cmd_write
    staged,        \* what git diff --staged prints (environment)
    diff,          \* the staged diff
    sent_diff,     \* the diff text put into the request, Unsent before
    wtext,         \* the response text in hand
    wjson,         \* the text llm_write hands to json.loads
    data,          \* what llm_write returned, NoData before
    full_message,  \* the commit message in hand
    wexc,          \* the exception that left cmd_write, "none" if none
    exit_status,   \* the process exit status, -1 while running
    whist          \* history: what run_git and the API did in this run

gitVars == <<repo, num, gpc, log, commits, gexc>>
llmVars == <<lcommits, batch_size, lpc, batches, idx, text, items,
             all_critiques, lexc, requests, outcomes>>
cmdVars == <<apc, url, tmp_dir, dirs, stats, aexc>>
writeVars == <<wpc, staged, diff, sent_diff, wtext, wjson, data, full_message, wexc,
               exit_status, whist>>
vars == <<gitVars, llmVars, cmdVars, writeVars>>

(***************************************************************************)
(* Bounds                                                                  *)
(***************************************************************************)
MaxRepoCommits == 2     \* commits in the repository
MaxNum == 2             \* largest n requested
HashLen == 2            \* length of a commit hash (40 in git)
MaxCommits == 5         \* commits handed to llm_analyze
MaxBatchSize == 3       \* largest batch_size
max_diff_chars == 3     \* the character budget of llm_write, scaled (100_000 in llm.py)
MaxDiffOver == 2        \* how far a staged diff can exceed the budget
MaxCritiques == 5       \* critiques handed to the statistics

(***************************************************************************)
(* Python str operations                                                   *)
(***************************************************************************)
NUL == "NUL"

\* values of variables not yet assigned
NoData == [type |-> "none", value |-> <<>>]
Unsent == <<"unsent">>
NoStats == [total |-> -1]
Whitespace == {" ", "\n"}

\* U+2028 LINE SEPARATOR is written "LS"; str.splitlines() ends a line at it
\* as at "\n"
LS == "LS"
LineEnds == {"\n", LS}

Min(a, b) == IF a < b THEN a ELSE b

\* s[:k]
Take(s, k) == SubSeq(s, 1, Min(k, Len(s)))

\* s[k:] (0-based k)
Drop(s, k) == SubSeq(s, k + 1, Len(s))

\* s.startswith(p)
StartsWith(s, p) == Len(s) >= Len(p) /\ SubSeq(s, 1, Len(p)) = p

\* s.endswith(p)
EndsWith(s, p) == Len(s) >= Len(p) /\ SubSeq(s, Len(s) - Len(p) + 1, Len(s)) = p

\* s.strip(chars): drop the leading and trailing characters that are in chars
StripChars(s, chars) ==
    LET keep == {i \in 1..Len(s) : s[i] \notin chars}
    IN  IF keep = {} THEN <<>>
        ELSE SubSeq(s, CHOOSE i \in keep : \A j \in keep : i <= j,
                       CHOOSE i \in keep : \A j \in keep : j <= i)

\* s.strip()
Strip(s) == StripChars(s, Whitespace)

\* the first index at which p occurs in s, 0 if none
Find(s, p) ==
    LET at == {i \in 1..(Len(s) - Len(p) + 1) : SubSeq(s, i, i + Len(p) - 1) = p}
    IN  IF at = {} THEN 0 ELSE CHOOSE i \in at : \A j \in at : i <= j

\* s.split(sep), sep non-empty
RECURSIVE Split(_, _)
Split(s, sep) ==
    LET i == Find(s, sep)
    IN  IF i = 0 THEN <<s>>
        ELSE <<SubSeq(s, 1, i - 1)>> \o Split(Drop(s, i - 1 + Len(sep)), sep)

\* s.splitlines()
RECURSIVE SplitLines(_)
SplitLines(s) ==
    IF s = <<>> THEN <<>>
    ELSE LET at == {i \in 1..Len(s) : s[i] \in LineEnds}
             i == IF at = {} THEN 0 ELSE CHOOSE j \in at : \A k \in at : j <= k
         IN  IF i = 0 THEN <<s>>
             ELSE <<SubSeq(s, 1, i - 1)>> \o SplitLines(Drop(s, i))

\* sep.join(parts)
RECURSIVE Join(_, _)
Join(sep, parts) ==
    IF parts = <<>> THEN <<>>
    ELSE IF Len(parts) = 1 THEN parts[1]
    ELSE parts[1] \o sep \o Join(sep, Tail(parts))

RECURSIVE Concat(_)
Concat(ss) == IF ss = <<>> THEN <<>> ELSE Head(ss) \o Concat(Tail(ss))

(***************************************************************************)
(* git_ops.py: run_git and get_commits                                     *)
(***************************************************************************)
\* What the git subprocess can do: exit 0 with stdout, exit non-zero, or run
\* past the timeout.
GitOutcomes(stdout) ==
    {[kind |-> "ok", stdout |-> stdout],
     [kind |-> "nonzero", stdout |-> <<>>],
     [kind |-> "timeout", stdout |-> <<>>]}

\* run_git: subprocess.run(..., timeout=120) raises TimeoutExpired itself;
\* a non-zero return code raises RuntimeError; else stdout.strip().
run_git(outcome) ==
    IF outcome.kind = "timeout" THEN [exc |-> "TimeoutExpired", value |-> <<>>]
    ELSE IF outcome.kind = "nonzero" THEN [exc |-> "RuntimeError", value |-> <<>>]
    ELSE [exc |-> "none", value |-> Strip(outcome.stdout)]

\* sep = "%x00": the four characters, which git expands to a NUL in its output
sep == <<"%", "x", "0", "0">>

\* fmt = "%H%n%an%n%ai%n%B" + sep, as git expands it for one commit
FormatCommit(c) == c.hash \o <<"\n">> \o c.author \o <<"\n">> \o c.date
                   \o <<"\n">> \o c.body \o <<NUL>>

\* git log -n --pretty=format:fmt : the newest n commits, a newline between
\* two entries
RECURSIVE FormatLog(_)
FormatLog(cs) ==
    IF cs = <<>> THEN <<>>
    ELSE IF Len(cs) = 1 THEN FormatCommit(cs[1])
    ELSE FormatCommit(cs[1]) \o <<"\n">> \o FormatLog(Tail(cs))

Emitted(r, n) == Take(r, n)

GitLogStdout(r, n) == FormatLog(Emitted(r, n))

\* the body of the for loop of get_commits for one block: the records it appends
ParseBlock(block) ==
    LET lines == SplitLines(Strip(block))
    IN  IF Len(lines) < 4 THEN <<>>
        ELSE << [hash |-> Strip(lines[1]),
                 author |-> Strip(lines[2]),
                 date |-> Strip(lines[3]),
                 message |-> Strip(Join(<<"\n">>, SubSeq(lines, 4, Len(lines))))] >>

RECURSIVE ParseBlocks(_)
ParseBlocks(blocks) ==
    IF blocks = <<>> THEN <<>>
    ELSE ParseBlock(Head(blocks)) \o ParseBlocks(Tail(blocks))

\* get_commits after run_git: blocks = log.strip(sep).split(sep), then the loop
ParseLog(l) ==
    ParseBlocks(Split(StripChars(l, {sep[i] : i \in 1..Len(sep)}), sep))

\* the repository: commits with a hash, an author, a date and a raw body (%B:
\* empty, or the message lines each ended by a newline)
HexDigits == {"0", "a"}
Hashes == {h \in [1..HashLen -> HexDigits] : TRUE}
Bodies == { <<>>,
            <<"m", "\n">>,
            <<"m", "\n", "\n", "b", "\n">>,
            <<"%", "x", "0", "0", "\n">> }
RepoCommits == [hash : Hashes, author : {<<"A">>}, date : {<<"D">>}, body : Bodies]
Repos == UNION {[1..k -> RepoCommits] : k \in 1..MaxRepoCommits}

GetCommitsRunGit ==
    /\ gpc = "start"
    /\ \E o \in GitOutcomes(GitLogStdout(repo, num)) :
          LET r == run_git(o)
          IN  IF r.exc # "none"
              THEN /\ gexc' = r.exc
                   /\ gpc' = "raised"
                   /\ log' = log
              ELSE /\ log' = r.value
                   /\ gpc' = "parse"
                   /\ gexc' = gexc
    /\ UNCHANGED <<repo, num, commits>>
    /\ UNCHANGED <<llmVars, cmdVars, writeVars>>

GetCommitsParse ==
    /\ gpc = "parse"
    /\ commits' = ParseLog(log)
    /\ gpc' = "done"
    /\ UNCHANGED <<repo, num, log, gexc>>
    /\ UNCHANGED <<llmVars, cmdVars, writeVars>>

(***************************************************************************)
(* llm.py: the response text, fence stripping and JSON                     *)
(*                                                                         *)
(* A JSON text is a string over "[", "]" and object tokens: one character  *)
(* stands for one whole JSON object (the commas between objects are left   *)
(* out).  Anything else in the text makes it invalid JSON.                 *)
(***************************************************************************)
Digits == <<"1", "2", "3", "4", "5", "6", "7", "8", "9">>
DigitChars == {Digits[i] : i \in 1..Len(Digits)}
DigitVal(ch) == CHOOSE i \in 1..Len(Digits) : Digits[i] = ch

\* the object the model gives back for the commit whose short hash is h:
\* its hash echoed, a score, every field present
GoodTok(h) == IF h # <<>> /\ h[Len(h)] \in DigitChars THEN "o" \o h[Len(h)] ELSE "o1"
GoodToks == {"o" \o d : d \in DigitChars}
GoodObject(tok) ==
    LET d == CHOOSE c \in DigitChars : tok = "o" \o c
    IN  [hash |-> <<"c", d>>,
         message |-> <<"m", d>>,
         score |-> [t |-> "int", v |-> ((DigitVal(d) * 3) % 10) + 1],
         issue |-> <<"i">>,
         suggestion |-> <<"s">>,
         praise |-> <<"p">>]

ObjectToks == GoodToks \cup {"E", "U", "S", "T", "W", "L"}

\* the text of an object whose summary string holds a U+2028, which JSON
\* allows unescaped in a string: "{" is the text up to it, "}" the text after
LineSepObject == <<"{", LS, "}">>

JsonObject(tok) ==
    CASE tok \in GoodToks -> GoodObject(tok)
      [] tok = "E" -> [k \in {} |-> <<>>]                     \* {}
      [] tok = "U" -> [hash |-> <<"c">>, score |-> [t |-> "null"]]
      [] tok = "S" -> [hash |-> <<"c">>, score |-> [t |-> "str", v |-> <<"h", "i">>]]
      [] tok = "T" -> [hash |-> <<"c">>, score |-> [t |-> "str", v |-> <<"8">>]]
      [] tok = "L" -> [summary |-> <<"a", LS, "b">>,
                       body |-> <<>>,
                       changes_detected |-> <<>>]
      [] tok = "W" -> [summary |-> <<"f", "i", "x">>,
                       body |-> << <<"b", "1">>, <<"b", "2">> >>,
                       changes_detected |-> << <<"c", "h">> >>]

\* the scan of the object texts: LineSepObject becomes the token "L"; a "\n"
\* in its place is a control character in a string, which json.loads rejects
RECURSIVE ScanObjects(_)
ScanObjects(t) ==
    IF t = <<>> THEN <<>>
    ELSE IF StartsWith(t, LineSepObject)
    THEN <<"L">> \o ScanObjects(Drop(t, Len(LineSepObject)))
    ELSE IF Head(t) = "L" THEN <<"?">> \o ScanObjects(Tail(t))
    ELSE <<Head(t)>> \o ScanObjects(Tail(t))

\* json.loads: whitespace between tokens is skipped; a text is a list of
\* objects or one object; everything else raises JSONDecodeError
JsonLoads(t) ==
    LET toks == SelectSeq(ScanObjects(t), LAMBDA ch : ch \notin Whitespace)
        n == Len(toks)
    IN  IF n = 1 /\ toks[1] \in ObjectToks
        THEN [ok |-> TRUE, type |-> "object", value |-> JsonObject(toks[1])]
        ELSE IF /\ n >= 2 /\ toks[1] = "[" /\ toks[n] = "]"
                /\ \A i \in 2..(n - 1) : toks[i] \in ObjectToks
        THEN [ok |-> TRUE, type |-> "list",
              value |-> [i \in 1..(n - 2) |-> JsonObject(toks[i + 1])]]
        ELSE [ok |-> FALSE, type |-> "none", value |-> <<>>]

\* a backtick is written "BT"
BT == "BT"
Fence == <<BT, BT, BT>>

\* the two ifs that strip a leading and a trailing fence line
StripFences(t) ==
    LET t1 == IF StartsWith(t, Fence)
              THEN Join(<<"\n">>, Tail(SplitLines(t)))
              ELSE t
    IN  IF EndsWith(t1, Fence)
        THEN Join(<<"\n">>, SubSeq(SplitLines(t1), 1, Len(SplitLines(t1)) - 1))
        ELSE t1

\* the ways the model output wraps a body
Wrap(w, body) ==
    CASE w = "plain" -> body
      [] w = "fenced" -> Fence \o <<"\n">> \o body \o <<"\n">> \o Fence
      [] w = "tagged" -> Fence \o <<"j", "s", "o", "n", "\n">> \o body
                         \o <<"\n">> \o Fence \o <<"\n">>
      [] w = "open" -> Fence \o <<"\n">> \o body
      [] w = "glued" -> Fence \o <<"j", "s", "o", "n", "\n">> \o body \o Fence
      [] w = "trailer" -> body \o <<"\n", "s", "e", "e", " ">> \o Fence
Wraps == {"plain", "fenced", "tagged"}
WriteWraps == Wraps \cup {"open", "glued", "trailer"}

(***************************************************************************)
(* llm.py: llm_analyze                                                     *)
(***************************************************************************)
\* s[i:j]
Slice(s, i, j) == SubSeq(s, i + 1, Min(j, Len(s)))

\* [commits[i:i + batch_size] for i in range(0, len(commits), batch_size)]
RECURSIVE BatchesFrom(_, _, _)
BatchesFrom(cs, i, b) ==
    IF i >= Len(cs) THEN <<>>
    ELSE <<Slice(cs, i, i + b)>> \o BatchesFrom(cs, i + b, b)

\* a partition that stops at the last full batch: range(0, len - len % b, b)
BatchesFullOnly(cs, b) == BatchesFrom(SubSeq(cs, 1, (Len(cs) \div b) * b), 0, b)

Batches(cs, b) == BatchesFrom(cs, 0, b)

\* the JSON payload of a batch: hash[:8] and message of each commit
Payload(batch) ==
    [k \in 1..Len(batch) |-> [hash |-> Take(batch[k].hash, 8),
                              message |-> batch[k].message]]

\* what the chat-completion call can do for a payload: raise, or return a text
ResponseBodies(payload) ==
    { <<"?">>,
      <<"[">> \o [k \in 1..Len(payload) |-> GoodTok(payload[k].hash)] \o <<"]">>,
      <<"[", "E", "]">>,
      <<"[", "T", "]">>,
      <<"[", "U", "]">>,
      <<"[", "S", "]">> }

ApiResponses(payload) ==
    {[kind |-> "error", content |-> <<>>]}
    \cup {[kind |-> "text", content |-> Wrap(w, b)] :
             w \in Wraps, b \in ResponseBodies(payload)}

\* item.get(key, default)
Get(item, key, default) == IF key \in DOMAIN item THEN item[key] ELSE default

IsNumeric(str) == Len(str) >= 1 /\ \A i \in 1..Len(str) : str[i] \in DigitChars \cup {"0"}

RECURSIVE IntOfDigits(_)
IntOfDigits(str) ==
    IF str = <<>> THEN 0
    ELSE 10 * IntOfDigits(SubSeq(str, 1, Len(str) - 1))
         + (IF str[Len(str)] = "0" THEN 0 ELSE DigitVal(str[Len(str)]))

\* int(x): a number as it is, a string of digits parsed, ValueError for any
\* other string, TypeError for None
PyInt(x) ==
    CASE x.t = "int" -> [exc |-> "none", v |-> x.v]
      [] x.t = "str" -> IF IsNumeric(x.v)
                        THEN [exc |-> "none", v |-> IntOfDigits(x.v)]
                        ELSE [exc |-> "ValueError", v |-> 0]
      [] x.t = "null" -> [exc |-> "TypeError", v |-> 0]

\* CommitCritique(hash=item.get("hash", ""), ..., score=int(item.get("score", 0)), ...)
MakeCritique(item) ==
    LET sc == PyInt(Get(item, "score", [t |-> "int", v |-> 0]))
    IN  [exc |-> sc.exc,
         critique |-> [hash |-> Get(item, "hash", <<>>),
                       message |-> Get(item, "message", <<>>),
                       score |-> sc.v,
                       issue |-> Get(item, "issue", <<>>),
                       suggestion |-> Get(item, "suggestion", <<>>),
                       praise |-> Get(item, "praise", <<>>)]]

\* the loop "for item in items" over a list: the critiques appended before
\* the loop ends or an item raises
RECURSIVE MakeCritiques(_)
MakeCritiques(its) ==
    IF its = <<>> THEN [exc |-> "none", critiques |-> <<>>]
    ELSE LET m == MakeCritique(Head(its))
         IN  IF m.exc # "none" THEN [exc |-> m.exc, critiques |-> <<>>]
             ELSE LET r == MakeCritiques(Tail(its))
                  IN  [exc |-> r.exc, critiques |-> <<m.critique>> \o r.critiques]

\* the loop over the parsed response: iterating a dict yields its keys, which
\* are str and have no .get (AttributeError), unless the dict is empty
ItemLoop(parsed) ==
    IF parsed.type = "list" THEN MakeCritiques(parsed.value)
    ELSE IF DOMAIN parsed.value = {} THEN [exc |-> "none", critiques |-> <<>>]
    ELSE [exc |-> "AttributeError", critiques |-> <<>>]

LlmAnalyzeStart ==
    /\ lpc = "start"
    /\ all_critiques' = <<>>
    /\ batches' = Batches(lcommits, batch_size)
    /\ idx' = 1
    /\ lpc' = "loop"
    /\ UNCHANGED <<lcommits, batch_size, text, items, lexc, requests, outcomes>>
    /\ UNCHANGED <<gitVars, cmdVars, writeVars>>

\* the next batch: its request, and "except Exception: ... continue"
SendRequest ==
    /\ lpc = "loop"
    /\ idx <= Len(batches)
    /\ requests' = Append(requests, [batch |-> idx, payload |-> Payload(batches[idx])])
    /\ \E r \in ApiResponses(Payload(batches[idx])) :
          IF r.kind = "error"
          THEN /\ outcomes' = Append(outcomes, [kind |-> "api_error", got |-> <<>>])
               /\ idx' = idx + 1
               /\ UNCHANGED <<lpc, text>>
          ELSE /\ text' = Strip(r.content)
               /\ lpc' = "parse"
               /\ UNCHANGED <<outcomes, idx>>
    /\ UNCHANGED <<lcommits, batch_size, batches, items, all_critiques, lexc>>
    /\ UNCHANGED <<gitVars, cmdVars, writeVars>>

\* fence stripping, json.loads, and "except json.JSONDecodeError: ... continue"
ParseResponse ==
    /\ lpc = "parse"
    /\ LET r == JsonLoads(StripFences(text))
       IN  IF ~r.ok
           THEN /\ outcomes' = Append(outcomes, [kind |-> "parse_error", got |-> <<>>])
                /\ idx' = idx + 1
                /\ lpc' = "loop"
                /\ items' = items
           ELSE /\ items' = [type |-> r.type, value |-> r.value]
                /\ lpc' = "items"
                /\ UNCHANGED <<outcomes, idx>>
    /\ UNCHANGED <<lcommits, batch_size, batches, text, all_critiques, lexc, requests>>
    /\ UNCHANGED <<gitVars, cmdVars, writeVars>>

\* for item in items: ... all_critiques.append(critique)
AppendCritiques ==
    /\ lpc = "items"
    /\ LET m == ItemLoop(items)
       IN  /\ all_critiques' = all_critiques \o m.critiques
           /\ IF m.exc # "none"
              THEN /\ lexc' = m.exc
                   /\ lpc' = "raised"
                   /\ outcomes' = Append(outcomes, [kind |-> "raised", got |-> <<>>])
                   /\ idx' = idx
              ELSE /\ outcomes' = Append(outcomes, [kind |-> "ok", got |-> m.critiques])
                   /\ idx' = idx + 1
                   /\ lpc' = "loop"
                   /\ lexc' = lexc
    /\ UNCHANGED <<lcommits, batch_size, batches, text, items, requests>>
    /\ UNCHANGED <<gitVars, cmdVars, writeVars>>

\* return all_critiques
LlmAnalyzeReturn ==
    /\ lpc = "loop"
    /\ idx > Len(batches)
    /\ lpc' = "returned"
    /\ UNCHANGED <<lcommits, batch_size, batches, idx, text, items, all_critiques,
                   lexc, requests, outcomes>>
    /\ UNCHANGED <<gitVars, cmdVars, writeVars>>

LlmAnalyzeNext ==
    \/ LlmAnalyzeStart
    \/ SendRequest
    \/ ParseResponse
    \/ AppendCritiques
    \/ LlmAnalyzeReturn

(***************************************************************************)
(* llm.py and main.py: llm_write and cmd_write                             *)
(***************************************************************************)
\* "\n\n... [diff truncated] ..."
TruncationMarker == <<"\n", "\n", ".", ".", ".", " ", "[", "d", "i", "f", "f", " ", "t", "r", "u", "n", "c", "a", "t", "e", "d", "]", " ", ".", ".", ".">>

\* a truncation that also cuts a diff of exactly the budget
TruncateFromBudget(d) ==
    IF Len(d) >= max_diff_chars THEN Take(d, max_diff_chars) \o TruncationMarker ELSE d

\* the truncation of llm_write
Truncate(d) ==
    IF Len(d) > max_diff_chars THEN Take(d, max_diff_chars) \o TruncationMarker ELSE d

\* what the chat-completion call can do in write mode
WriteBodies == { <<"?">>, <<"W">>, <<"E">>, <<"[", "W", "]">>, LineSepObject }

WriteResponses ==
    {[kind |-> "error", content |-> <<>>]}
    \cup {[kind |-> "text", content |-> Wrap(w, b)] : w \in WriteWraps, b \in WriteBodies}

\* an llm_write that returns an empty suggestion for an unparseable response
llm_write_result_empty(t) ==
    LET r == JsonLoads(StripFences(t))
    IN  IF r.ok THEN [exit |-> FALSE, data |-> [type |-> r.type, value |-> r.value]]
        ELSE [exit |-> FALSE, data |-> [type |-> "object", value |-> [k \in {} |-> <<>>]]]

\* the end of llm_write: the parsed JSON is returned, a JSONDecodeError is
\* printed and ends the process with sys.exit(1)
llm_write_result(t) ==
    LET r == JsonLoads(StripFences(t))
    IN  IF r.ok THEN [exit |-> FALSE, data |-> [type |-> r.type, value |-> r.value]]
        ELSE [exit |-> TRUE, data |-> NoData]

\* full_message = data["summary"] + "\n\n" + "\n".join("- " + b for b in data["body"])
FullMessage(d) ==
    IF "body" \in DOMAIN d /\ d["body"] # <<>>
    THEN d["summary"] \o <<"\n", "\n">>
         \o Join(<<"\n">>, [k \in 1..Len(d["body"]) |-> <<"-", " ">> \o d["body"][k]])
    ELSE d["summary"]

Event(op, kind) == [op |-> op, kind |-> kind]

\* diff = get_staged_diff(), "except RuntimeError: ... sys.exit(1)" and
\* "if not diff: ... sys.exit(1)"
GetStagedDiff ==
    /\ wpc = "start"
    /\ \E o \in GitOutcomes(staged) :
          LET r == run_git(o)
          IN  /\ whist' = Append(whist, Event("git diff", o.kind))
              /\ IF r.exc = "RuntimeError"
                 THEN /\ wpc' = "exited" /\ exit_status' = 1
                      /\ UNCHANGED <<diff, wexc>>
                 ELSE IF r.exc # "none"
                 THEN /\ wpc' = "crashed" /\ exit_status' = 1 /\ wexc' = r.exc
                      /\ diff' = diff
                 ELSE IF r.value = <<>>
                 THEN /\ wpc' = "exited" /\ exit_status' = 1
                      /\ UNCHANGED <<diff, wexc>>
                 ELSE /\ diff' = r.value /\ wpc' = "llm_write"
                      /\ UNCHANGED <<exit_status, wexc>>
    /\ UNCHANGED <<staged, sent_diff, wtext, wjson, data, full_message>>
    /\ UNCHANGED <<gitVars, llmVars, cmdVars>>

\* llm_write up to the response: truncation, the request, and
\* "except Exception: print(...); sys.exit(1)"
LlmWriteSend ==
    /\ wpc = "llm_write"
    /\ sent_diff' = Truncate(diff)
    /\ \E r \in WriteResponses :
          IF r.kind = "error"
          THEN /\ whist' = whist \o <<Event("api", "error"), Event("print", "error")>>
               /\ wpc' = "exited" /\ exit_status' = 1
               /\ wtext' = wtext
          ELSE /\ whist' = Append(whist, Event("api", "text"))
               /\ wtext' = Strip(r.content)
               /\ wpc' = "llm_parse"
               /\ exit_status' = exit_status
    /\ UNCHANGED <<staged, diff, wjson, data, full_message, wexc>>
    /\ UNCHANGED <<gitVars, llmVars, cmdVars>>

\* llm_write from the fence stripping on
LlmWriteParse ==
    /\ wpc = "llm_parse"
    /\ wjson' = StripFences(wtext)
    /\ LET r == llm_write_result(wtext)
       IN  IF r.exit
           THEN /\ whist' = Append(whist, Event("print", "error"))
                /\ wpc' = "exited" /\ exit_status' = 1
                /\ data' = data
           ELSE /\ whist' = whist
                /\ data' = r.data
                /\ wpc' = "print"
                /\ exit_status' = exit_status
    /\ UNCHANGED <<staged, diff, sent_diff, wtext, full_message, wexc>>
    /\ UNCHANGED <<gitVars, llmVars, cmdVars>>

\* print_write_suggestion(data) and the building of full_message: a list has no
\* .get, an object without "summary" raises KeyError
PrintSuggestion ==
    /\ wpc = "print"
    /\ IF data.type # "object"
       THEN /\ wexc' = "AttributeError" /\ wpc' = "crashed" /\ exit_status' = 1
            /\ full_message' = full_message
       ELSE IF "summary" \notin DOMAIN data.value
       THEN /\ wexc' = "KeyError" /\ wpc' = "crashed" /\ exit_status' = 1
            /\ full_message' = full_message
       ELSE /\ full_message' = FullMessage(data.value)
            /\ wpc' = "prompt"
            /\ UNCHANGED <<wexc, exit_status>>
    /\ UNCHANGED <<staged, diff, sent_diff, wtext, wjson, data, whist>>
    /\ UNCHANGED <<gitVars, llmVars, cmdVars>>

Answers == { <<>>, <<"q">>, <<"Q">>, <<"m", "y">> }
Lower(a) == [k \in 1..Len(a) |-> IF a[k] = "Q" THEN "q" ELSE a[k]]

\* answer = input(...).strip(): q aborts, a non-empty answer replaces the message
Prompt ==
    /\ wpc = "prompt"
    /\ \E answer \in Answers :
          /\ whist' = Append(whist, Event("prompt", "answered"))
          /\ IF Lower(answer) = <<"q">>
             THEN /\ wpc' = "returned" /\ exit_status' = 0
                  /\ full_message' = full_message
             ELSE /\ full_message' = IF answer # <<>> THEN answer ELSE full_message
                  /\ wpc' = "commit"
                  /\ exit_status' = exit_status
    /\ UNCHANGED <<staged, diff, sent_diff, wtext, wjson, data, wexc>>
    /\ UNCHANGED <<gitVars, llmVars, cmdVars>>

\* run_git(["commit", "-m", full_message]) and "except RuntimeError: print(...)"
Commit ==
    /\ wpc = "commit"
    /\ \E o \in GitOutcomes(<<>>) :
          LET r == run_git(o)
          IN  /\ whist' = Append(whist, Event("git commit", o.kind))
              /\ IF r.exc \in {"none", "RuntimeError"}
                 THEN /\ wpc' = "returned" /\ exit_status' = 0
                      /\ wexc' = wexc
                 ELSE /\ wpc' = "crashed" /\ exit_status' = 1 /\ wexc' = r.exc
    /\ UNCHANGED <<staged, diff, sent_diff, wtext, wjson, data, full_message>>
    /\ UNCHANGED <<gitVars, llmVars, cmdVars>>

CmdWriteNext ==
    \/ GetStagedDiff
    \/ LlmWriteSend
    \/ LlmWriteParse
    \/ PrintSuggestion
    \/ Prompt
    \/ Commit

(***************************************************************************)
(* git_ops.py and main.py: clone_repo and cmd_analyze                      *)
(***************************************************************************)
\* what the git clone subprocess can do: succeed, run past the 300 s timeout,
\* exit non-zero (stderr of three kinds), or not start at all (OSError)
CloneOutcomes == {"ok", "timeout", "auth_failed", "not_found", "failed", "oserror"}

\* clone_repo after mkdtemp: the exception it raises, and whether it removed
\* the directory (the rmtree calls are in the two except clauses)
clone_repo(o) ==
    CASE o = "ok" -> [exc |-> "none", removed |-> FALSE]
      [] o = "timeout" -> [exc |-> "RuntimeError", removed |-> TRUE]
      [] o \in {"auth_failed", "not_found", "failed"} ->
                          [exc |-> "RuntimeError", removed |-> TRUE]
      [] o = "oserror" -> [exc |-> "FileNotFoundError", removed |-> FALSE]

\* finally: if tmp_dir: shutil.rmtree(tmp_dir, ignore_errors=True)
Finally(td, ds) == IF td # "none" THEN ds \ {td} ELSE ds

\* len(message.split())
RECURSIVE WordCount(_)
WordCount(m) ==
    IF m = <<>> THEN 0
    ELSE IF Head(m) \in Whitespace THEN WordCount(Tail(m))
    ELSE IF Len(m) = 1 \/ m[2] \in Whitespace THEN 1 + WordCount(Tail(m))
    ELSE WordCount(Tail(m))

RECURSIVE SumScores(_)
SumScores(cs) == IF cs = <<>> THEN 0 ELSE Head(cs).score + SumScores(Tail(cs))

\* statistics whose vague threshold takes in the score 5
RepoStatsVagueInclusive(cs) ==
    [total |-> Len(cs),
     avg_score |-> IF cs # <<>> THEN [num |-> SumScores(cs), den |-> Len(cs)]
                   ELSE [num |-> 0, den |-> 1],
     vague_count |-> Cardinality({k \in 1..Len(cs) : cs[k].score <= 5}),
     decent_count |-> Cardinality({k \in 1..Len(cs) : 5 <= cs[k].score /\ cs[k].score < 7}),
     one_word_count |-> Cardinality({k \in 1..Len(cs) : WordCount(cs[k].message) <= 1}),
     good_count |-> Cardinality({k \in 1..Len(cs) : cs[k].score >= 7}),
     critiques |-> cs]

\* the RepoStats of cmd_analyze; avg_score is the fraction num/den, 0/1 for
\* the empty list
RepoStats(cs) ==
    [total |-> Len(cs),
     avg_score |-> IF cs # <<>> THEN [num |-> SumScores(cs), den |-> Len(cs)]
                   ELSE [num |-> 0, den |-> 1],
     vague_count |-> Cardinality({k \in 1..Len(cs) : cs[k].score < 5}),
     decent_count |-> Cardinality({k \in 1..Len(cs) : 5 <= cs[k].score /\ cs[k].score < 7}),
     one_word_count |-> Cardinality({k \in 1..Len(cs) : WordCount(cs[k].message) <= 1}),
     good_count |-> Cardinality({k \in 1..Len(cs) : cs[k].score >= 7}),
     critiques |-> cs]

\* print_analysis: c.message.splitlines()[0] raises IndexError on a critique
\* it prints whose message has no line
PrintAnalysisRaises(st) ==
    \E k \in 1..Len(st.critiques) : SplitLines(st.critiques[k].message) = <<>>

\* batch_size: int = 25
DefaultBatchSize == 25

\* if args.url: tmp_dir = clone_repo(args.url), "except RuntimeError: ... return"
CmdClone ==
    /\ apc = "start"
    /\ url # "none"
    /\ \E o \in CloneOutcomes :
          LET r == clone_repo(o)
              made == dirs \cup {"tmp1"}
              left == IF r.removed THEN made \ {"tmp1"} ELSE made
          IN  IF r.exc = "none"
              THEN /\ tmp_dir' = "tmp1" /\ dirs' = left
                   /\ apc' = "get_commits"
                   /\ aexc' = aexc
              ELSE IF r.exc = "RuntimeError"
              THEN /\ dirs' = Finally(tmp_dir, left)
                   /\ apc' = "returned"
                   /\ UNCHANGED <<tmp_dir, aexc>>
              ELSE /\ dirs' = Finally(tmp_dir, left)
                   /\ apc' = "raised" /\ aexc' = r.exc
                   /\ tmp_dir' = tmp_dir
    /\ UNCHANGED <<url, stats>>
    /\ UNCHANGED <<gitVars, llmVars, writeVars>>

CmdNoUrl ==
    /\ apc = "start"
    /\ url = "none"
    /\ apc' = "get_commits"
    /\ UNCHANGED <<url, tmp_dir, dirs, stats, aexc>>
    /\ UNCHANGED <<gitVars, llmVars, writeVars>>

\* commits = get_commits(n, cwd=cwd): the call
CmdGetCommits ==
    /\ apc = "get_commits"
    /\ gpc = "idle"
    /\ gpc' = "start"
    /\ apc' = "in_get_commits"
    /\ UNCHANGED <<repo, num, log, commits, gexc>>
    /\ UNCHANGED <<url, tmp_dir, dirs, stats, aexc>>
    /\ UNCHANGED <<llmVars, writeVars>>

\* get_commits has ended: its exception leaves through finally, no commits
\* returns through finally, else llm_analyze(client, commits) is called
CmdAfterGetCommits ==
    /\ apc = "in_get_commits"
    /\ gpc \in {"done", "raised"}
    /\ IF gpc = "raised"
       THEN /\ dirs' = Finally(tmp_dir, dirs)
            /\ apc' = "raised" /\ aexc' = gexc
            /\ UNCHANGED llmVars
       ELSE IF commits = <<>>
       THEN /\ dirs' = Finally(tmp_dir, dirs)
            /\ apc' = "returned"
            /\ UNCHANGED <<aexc, llmVars>>
       ELSE /\ lcommits' = commits /\ batch_size' = DefaultBatchSize
            /\ lpc' = "start"
            /\ apc' = "in_llm_analyze"
            /\ UNCHANGED <<batches, idx, text, items, all_critiques, lexc,
                           requests, outcomes>>
            /\ UNCHANGED <<dirs, aexc>>
    /\ UNCHANGED <<url, tmp_dir, stats>>
    /\ UNCHANGED <<gitVars, writeVars>>

\* llm_analyze has ended: the statistics, print_analysis, and finally
CmdAfterLlmAnalyze ==
    /\ apc = "in_llm_analyze"
    /\ lpc \in {"returned", "raised"}
    /\ dirs' = Finally(tmp_dir, dirs)
    /\ IF lpc = "raised"
       THEN /\ apc' = "raised" /\ aexc' = lexc
            /\ stats' = stats
       ELSE /\ stats' = RepoStats(all_critiques)
            /\ IF PrintAnalysisRaises(RepoStats(all_critiques))
               THEN apc' = "raised" /\ aexc' = "IndexError"
               ELSE apc' = "returned" /\ aexc' = aexc
    /\ UNCHANGED <<url, tmp_dir>>
    /\ UNCHANGED <<gitVars, llmVars, writeVars>>

CmdAnalyzeNext ==
    \/ CmdClone
    \/ CmdNoUrl
    \/ CmdGetCommits
    \/ GetCommitsRunGit
    \/ GetCommitsParse
    \/ CmdAfterGetCommits
    \/ LlmAnalyzeStart
    \/ SendRequest
    \/ ParseResponse
    \/ AppendCritiques
    \/ LlmAnalyzeReturn
    \/ CmdAfterLlmAnalyze

(***************************************************************************)
(* Specifications                                                          *)
(***************************************************************************)
GitIdle ==
    /\ repo = <<>> /\ num = 0 /\ gpc = "idle" /\ log = <<>>
    /\ commits = <<>> /\ gexc = "none"

LlmIdle ==
    /\ lcommits = <<>> /\ batch_size = 1 /\ lpc = "idle" /\ batches = <<>>
    /\ idx = 0 /\ text = <<>> /\ items = [type |-> "none", value |-> <<>>]
    /\ all_critiques = <<>> /\ lexc = "none" /\ requests = <<>> /\ outcomes = <<>>

CmdIdle ==
    /\ apc = "idle" /\ url = "none" /\ tmp_dir = "none" /\ dirs = {}
    /\ stats = NoStats
    /\ aexc = "none"

WriteIdle ==
    /\ wpc = "idle" /\ staged = <<>> /\ diff = <<>> /\ sent_diff = Unsent /\ wtext = <<>>
    /\ wjson = <<>>
    /\ data = NoData /\ full_message = <<>> /\ wexc = "none"
    /\ exit_status = -1 /\ whist = <<>>

\* the commits handed to llm_analyze: c1, c2, ...
LCommit(k) == [hash |-> <<"c", Digits[k]>>, author |-> <<"A">>,
               date |-> <<"D">>, message |-> <<"m", Digits[k]>>]

\* llm_analyze alone, called with any commit list and any batch_size >= 1
InitAnalyze ==
    /\ lcommits \in {[k \in 1..n |-> LCommit(k)] : n \in 0..MaxCommits}
    /\ batch_size \in 1..MaxBatchSize
    /\ lpc = "start" /\ batches = <<>>
    /\ idx = 0 /\ text = <<>> /\ items = [type |-> "none", value |-> <<>>]
    /\ all_critiques = <<>> /\ lexc = "none" /\ requests = <<>> /\ outcomes = <<>>
    /\ GitIdle /\ CmdIdle /\ WriteIdle

SpecAnalyze == InitAnalyze /\ [][LlmAnalyzeNext]_vars

\* get_commits alone, on any repository and any n >= 0
InitGit ==
    /\ repo \in Repos
    /\ num \in 0..MaxNum
    /\ gpc = "start" /\ log = <<>> /\ commits = <<>> /\ gexc = "none"
    /\ LlmIdle /\ CmdIdle /\ WriteIdle

GetCommitsNext ==
    \/ GetCommitsRunGit
    \/ GetCommitsParse

SpecGit == InitGit /\ [][GetCommitsNext]_vars

\* a staged diff: the characters 1, 2, ..., n, ended by a newline
StagedDiffs == {[k \in 1..n |-> Digits[k]] \o <<"\n">> : n \in 1..(max_diff_chars + MaxDiffOver)}
               \cup {<<>>, <<"\n">>}

\* cmd_write on any staged diff
InitWrite ==
    /\ staged \in StagedDiffs
    /\ wpc = "start" /\ diff = <<>> /\ sent_diff = Unsent /\ wtext = <<>>
    /\ wjson = <<>>
    /\ data = NoData /\ full_message = <<>> /\ wexc = "none"
    /\ exit_status = -1 /\ whist = <<>>
    /\ GitIdle /\ LlmIdle /\ CmdIdle

SpecWrite == InitWrite /\ [][CmdWriteNext]_vars

\* cmd_analyze with or without --url, on any repository and any n >= 0
InitCmdAnalyze ==
    /\ url \in {"none", "https://host/repo.git"}
    /\ repo \in Repos
    /\ num \in 0..MaxNum
    /\ apc = "start" /\ tmp_dir = "none" /\ dirs = {} /\ stats = NoStats
    /\ aexc = "none"
    /\ gpc = "idle" /\ log = <<>> /\ commits = <<>> /\ gexc = "none"
    /\ LlmIdle /\ WriteIdle

SpecCmdAnalyze == InitCmdAnalyze /\ [][CmdAnalyzeNext]_vars

\* the critiques llm_analyze can hand back: a score and a message of no, one
\* or two words
CritiqueOf(sc, msg) ==
    [hash |-> <<"c">>, message |-> msg, score |-> sc,
     issue |-> <<>>, suggestion |-> <<>>, praise |-> <<>>]

CritiquePool ==
    { CritiqueOf(1, <<"f">>),
      CritiqueOf(3, <<"f", " ", "b">>),
      CritiqueOf(4, <<>>),
      CritiqueOf(5, <<" ", "f">>),
      CritiqueOf(6, <<"f", "\n", "b">>),
      CritiqueOf(7, <<"f">>),
      CritiqueOf(8, <<"f", " ", "b">>),
      CritiqueOf(9, <<"f">>) }

\* cmd_analyze at the return of llm_analyze, with any list of critiques
InitStats ==
    /\ all_critiques \in UNION {[1..k -> CritiquePool] : k \in 0..MaxCritiques}
    /\ lcommits = <<>> /\ batch_size = DefaultBatchSize /\ lpc = "returned"
    /\ batches = <<>> /\ idx = 1 /\ text = <<>>
    /\ items = [type |-> "none", value |-> <<>>]
    /\ lexc = "none" /\ requests = <<>> /\ outcomes = <<>>
    /\ apc = "in_llm_analyze" /\ url = "none" /\ tmp_dir = "none" /\ dirs = {}
    /\ stats = NoStats /\ aexc = "none"
    /\ GitIdle /\ WriteIdle

SpecStats == InitStats /\ [][CmdAfterLlmAnalyze]_vars

(***************************************************************************)
(* Properties of get_commits (SpecGit)                                     *)
(***************************************************************************)
\* C3: get_commits returns at most n records, each with a hash of full length
\* and a non-empty author and date.
C3_AtMostNWellFormed ==
    gpc = "done" =>
        /\ Len(commits) <= num
        /\ \A k \in 1..Len(commits) :
              /\ Len(commits[k].hash) = HashLen
              /\ commits[k].author # <<>>
              /\ commits[k].date # <<>>

\* C4: for the K commits git log printed, each with a non-empty message,
\* get_commits returns K records in the same order, each with the hash, author,
\* date and message of its commit.
C4_OneRecordPerCommit ==
    LET out == Emitted(repo, num)
    IN  (gpc = "done" /\ \A k \in 1..Len(out) : out[k].body # <<>>) =>
            /\ Len(commits) = Len(out)
            /\ \A k \in 1..Len(out) :
                  /\ commits[k].hash = out[k].hash
                  /\ commits[k].author = out[k].author
                  /\ commits[k].date = out[k].date
                  /\ commits[k].message = Strip(out[k].body)

(***************************************************************************)
(* Properties of llm_analyze (SpecAnalyze)                                 *)
(***************************************************************************)
LlmEnded == lpc \in {"returned", "raised"}

\* what the handled batches contributed, in batch order
Contributed(os) == Concat([k \in 1..Len(os) |-> os[k].got])

HasOutcome(kind) == \E k \in 1..Len(outcomes) : outcomes[k].kind = kind

\* C1: a run of llm_analyze in which the call of some batch failed ends by
\* returning normally, with every batch sent and with exactly the critiques of
\* the batches whose call succeeded, in batch order.
C1_ApiFailureDegrades ==
    (LlmEnded /\ HasOutcome("api_error")) =>
        /\ lpc = "returned"
        /\ lexc = "none"
        /\ Len(requests) = Len(batches)
        /\ all_critiques = Contributed(outcomes)

CeilDiv(n, b) == (n + b - 1) \div b

\* C2: once llm_analyze has partitioned the commits, there are ceil(n/b)
\* batches, each non-empty and of at most b commits, all but the last of
\* exactly b, their concatenation is the commit list, and no commits means no
\* batch and no request.
C2_BatchesPartition ==
    lpc \in {"loop", "parse", "items", "returned", "raised"} =>
        /\ Len(batches) = CeilDiv(Len(lcommits), batch_size)
        /\ \A k \in 1..Len(batches) :
              Len(batches[k]) >= 1 /\ Len(batches[k]) <= batch_size
        /\ \A k \in 1..(Len(batches) - 1) : Len(batches[k]) = batch_size
        /\ Concat(batches) = lcommits
        /\ (lcommits = <<>> => batches = <<>> /\ requests = <<>>)

\* C2 witness: five commits in batches of two were cut into [2, 2, 1] (the
\* shape of 60 commits in batches of 25) and the run has returned
C2_Witness ==
    /\ lpc = "returned"
    /\ Len(lcommits) = 5 /\ batch_size = 2
    /\ Len(batches) = 3 /\ Len(batches[3]) = 1
    /\ Len(requests) = 3

\* C7: a run of llm_analyze in which the response of some batch was not valid
\* JSON ends with every batch processed and with exactly the critiques of the
\* other batches: the unparseable batch adds nothing and removes nothing.
C7_ParseFailureSkipsBatch ==
    (LlmEnded /\ HasOutcome("parse_error")) =>
        /\ Len(outcomes) = Len(batches)
        /\ \A k \in 1..Len(outcomes) : outcomes[k].kind \in {"ok", "api_error", "parse_error"}
        /\ all_critiques = Contributed(outcomes)

ScoreMalformed(item) ==
    "score" \in DOMAIN item /\ PyInt(item["score"]).exc # "none"

\* C8: no parsed item makes llm_analyze raise: with the parsed list in hand,
\* the item loop yields one critique per item, with "" for each missing field
\* and score 0 for an absent or malformed score.
C8_ItemsNeverRaise ==
    /\ lpc # "raised"
    /\ (lpc = "items" /\ items.type = "list") =>
          LET m == ItemLoop(items)
          IN  /\ m.exc = "none"
              /\ Len(m.critiques) = Len(items.value)
              /\ \A k \in 1..Len(items.value) :
                    /\ \A f \in {"hash", "message", "issue", "suggestion", "praise"} :
                          f \notin DOMAIN items.value[k] => m.critiques[k][f] = <<>>
                    /\ ("score" \notin DOMAIN items.value[k] \/ ScoreMalformed(items.value[k]))
                          => m.critiques[k].score = 0

\* C10: when a run of llm_analyze has ended, the requests it sent are exactly
\* one per batch, in batch order.
C10_OneRequestPerBatch ==
    LlmEnded => requests = [k \in 1..Len(batches) |->
                               [batch |-> k, payload |-> Payload(batches[k])]]

(***************************************************************************)
(* Properties of cmd_analyze (SpecCmdAnalyze)                              *)
(***************************************************************************)
\* C5: when cmd_analyze has ended, by returning or by an exception, no
\* temporary directory is left on disk.
C5_TempDirRemoved ==
    apc \in {"returned", "raised"} => dirs = {}

(***************************************************************************)
(* Properties of cmd_write (SpecWrite)                                     *)
(***************************************************************************)
HasEvent(op, kind) == \E k \in 1..Len(whist) : whist[k] = Event(op, kind)
HasOp(op) == \E k \in 1..Len(whist) : whist[k].op = op

\* the response text has been through llm_write's parsing and is not valid
\* JSON after fence stripping
ResponseInvalid ==
    /\ HasEvent("api", "text")
    /\ wpc # "llm_parse"
    /\ ~JsonLoads(StripFences(wtext)).ok

ResponseValid ==
    /\ HasEvent("api", "text")
    /\ wpc # "llm_parse"
    /\ JsonLoads(StripFences(wtext)).ok

\* C6: in write mode an error of the chat-completion call or a response that
\* is not valid JSON after fence stripping ends the process with a non-zero
\* exit status right after an error is printed, with no suggestion returned,
\* no prompt and no git commit; any other response returns its one parsed
\* suggestion.
C6_WriteFailureIsFatal ==
    /\ (HasEvent("api", "error") \/ ResponseInvalid) =>
          /\ wpc = "exited"
          /\ exit_status > 0
          /\ whist[Len(whist)] = Event("print", "error")
          /\ data = NoData
          /\ ~HasOp("prompt")
          /\ ~HasOp("git commit")
    /\ ResponseValid =>
          /\ data = [type |-> JsonLoads(StripFences(wtext)).type,
                     value |-> JsonLoads(StripFences(wtext)).value]
          /\ wpc # "exited"
    /\ wpc \in {"print", "prompt", "commit"} => ResponseValid

\* C6 witness: a fenced response whose inside is not JSON has ended the process
C6_Witness ==
    /\ StartsWith(wtext, Fence)
    /\ ResponseInvalid
    /\ wpc = "exited"
    /\ exit_status = 1

\* C9: every failure of a git subprocess in cmd_write, non-zero exit or
\* timeout, is the error kind cmd_write handles: no exception of it leaves
\* cmd_write.
C9_GitFailureHandled ==
    (\E k \in 1..Len(whist) :
        /\ whist[k].op \in {"git diff", "git commit"}
        /\ whist[k].kind \in {"nonzero", "timeout"})
    => (wexc = "none" /\ wpc \in {"exited", "returned"})


(***************************************************************************)
(* Properties of the statistics of cmd_analyze (SpecStats)                 *)
(***************************************************************************)
Scores(cs) == [k \in 1..Len(cs) |-> cs[k].score]

\* the sum of the first k scores
RECURSIVE ScoreSumTo(_, _)
ScoreSumTo(cs, k) == IF k = 0 THEN 0 ELSE ScoreSumTo(cs, k - 1) + cs[k].score

\* how many of the first k critiques fall in the class of a score: one pass
\* that puts each score in exactly one class
ScoreClass(sc) == IF sc < 5 THEN "vague" ELSE IF sc < 7 THEN "decent" ELSE "good"

RECURSIVE ClassCountTo(_, _, _)
ClassCountTo(cs, k, class) ==
    IF k = 0 THEN 0
    ELSE ClassCountTo(cs, k - 1, class)
         + (IF ScoreClass(cs[k].score) = class THEN 1 ELSE 0)

\* the words of a message: the places where a word starts
WordStarts(m) ==
    {i \in 1..Len(m) : m[i] \notin Whitespace /\ (i = 1 \/ m[i - 1] \in Whitespace)}

RECURSIVE OneWordTo(_, _)
OneWordTo(cs, k) ==
    IF k = 0 THEN 0
    ELSE OneWordTo(cs, k - 1)
         + (IF Cardinality(WordStarts(cs[k].message)) <= 1 THEN 1 ELSE 0)

\* C11: the statistics cmd_analyze builds are determined by the critique list:
\* total is its length, avg_score its score sum over total and 0 when it is
\* empty, the three score counts are the scores below 5, from 5 below 7 and
\* from 7, they add up to total, one_word_count counts the messages of at
\* most one word, and the scores 1, 3, 6, 8, 9 give 5, 27/5, 2, 1, 2.
C11_StatsOfCritiques ==
    stats # NoStats =>
        LET cs == all_critiques
            n == Len(cs)
        IN  /\ stats.total = n
            /\ stats.critiques = cs
            /\ IF n = 0
               THEN stats.avg_score.num = 0
               ELSE /\ stats.avg_score.num = ScoreSumTo(cs, n)
                    /\ stats.avg_score.den = n
            /\ stats.avg_score.den > 0
            /\ stats.vague_count = ClassCountTo(cs, n, "vague")
            /\ stats.decent_count = ClassCountTo(cs, n, "decent")
            /\ stats.good_count = ClassCountTo(cs, n, "good")
            /\ stats.vague_count + stats.decent_count + stats.good_count = stats.total
            /\ stats.one_word_count = OneWordTo(cs, n)
            /\ Scores(cs) = <<1, 3, 6, 8, 9>> =>
                  /\ stats.total = 5
                  /\ stats.avg_score.num = 27 /\ stats.avg_score.den = 5
                  /\ 10 * stats.avg_score.num = 54 * stats.avg_score.den
                  /\ stats.vague_count = 2
                  /\ stats.decent_count = 1
                  /\ stats.good_count = 2

\* C11 witness: the statistics of the scores 1, 3, 6, 8, 9 have been built
\* and printed
C11_Witness ==
    /\ apc = "returned"
    /\ Scores(all_critiques) = <<1, 3, 6, 8, 9>>
    /\ stats.total = 5
    /\ stats.avg_score = [num |-> 27, den |-> 5]

\* C11 witness of the empty list: the statistics of no critique
C11_WitnessEmpty ==
    /\ apc = "returned"
    /\ all_critiques = <<>>
    /\ stats.total = 0
    /\ stats.avg_score.num = 0


(***************************************************************************)
(* Properties of the fence stripping (SpecWrite)                           *)
(***************************************************************************)
\* llm_write has stripped and parsed the response text
ResponseParsed == HasEvent("api", "text") /\ wpc # "llm_parse"

\* the text made of the lines a..b of wtext, wtext itself when all are kept
KeptLines(a, b) ==
    IF a = 1 /\ b = Len(SplitLines(wtext)) THEN wtext
    ELSE Join(<<"\n">>, SubSeq(SplitLines(wtext), a, b))

\* only lines that start with three backticks are removed, at most the first
\* and at most the last
C12_OnlyFenceLinesRemoved ==
    ResponseParsed =>
        LET lines == SplitLines(wtext)
            n == Len(lines)
        IN  \E a \in {1, 2}, b \in {n - 1, n} :
               /\ a = 2 => StartsWith(lines[1], Fence)
               /\ b = n - 1 => StartsWith(lines[n], Fence)
               /\ wjson = KeptLines(a, b)

OpeningFenceLines == {Fence, Fence \o <<"j", "s", "o", "n">>}

\* an opening fence line, a JSON text and a closing fence line parse to the
\* value of the JSON text
C12_FencedJsonParses ==
    ResponseParsed =>
        \A open \in OpeningFenceLines, body \in WriteBodies :
            /\ wtext = open \o <<"\n">> \o body \o <<"\n">> \o Fence
            /\ JsonLoads(body).ok
            => data = [type |-> JsonLoads(body).type, value |-> JsonLoads(body).value]

\* valid JSON without fences parses to its value unchanged
C12_PlainJsonParses ==
    /\ ResponseParsed
    /\ ~StartsWith(wtext, Fence) /\ ~EndsWith(wtext, Fence)
    /\ JsonLoads(wtext).ok
    => /\ wjson = wtext
       /\ data = [type |-> JsonLoads(wtext).type, value |-> JsonLoads(wtext).value]

\* a text that is not valid JSON after stripping is a parse failure
C12_InvalidJsonFails ==
    ResponseParsed /\ ~JsonLoads(wjson).ok
    => wpc = "exited" /\ exit_status = 1 /\ data = NoData

\* C12: fence stripping removes at most one leading and at most one trailing
\* line, and only a line that starts with three backticks; an opening fence
\* line, a JSON text and a closing fence line parse to that JSON value; valid
\* JSON without fences parses to the same value unchanged; a text that is
\* not valid JSON after stripping gives a parse failure.
C12_FenceStripping ==
    /\ C12_OnlyFenceLinesRemoved
    /\ C12_FencedJsonParses
    /\ C12_PlainJsonParses
    /\ C12_InvalidJsonFails


(***************************************************************************)
(* Properties of the diff truncation (SpecWrite)                           *)
(***************************************************************************)
\* C13: llm_write sends a diff of at most max_diff_chars characters
\* unchanged, sends of every longer diff exactly its first max_diff_chars
\* characters followed by the truncation marker, and never sends a diff text
\* longer than max_diff_chars plus the length of the marker.
C13_DiffTruncation ==
    sent_diff # Unsent =>
        /\ Len(diff) <= max_diff_chars => sent_diff = diff
        /\ Len(diff) > max_diff_chars =>
              /\ Len(sent_diff) = max_diff_chars + Len(TruncationMarker)
              /\ \A i \in 1..max_diff_chars : sent_diff[i] = diff[i]
              /\ \A i \in 1..Len(TruncationMarker) :
                    sent_diff[max_diff_chars + i] = TruncationMarker[i]
        /\ Len(sent_diff) <= max_diff_chars + Len(TruncationMarker)

\* C13 witness: a diff longer than the budget has been sent cut, with the marker
C13_Witness ==
    /\ sent_diff # Unsent
    /\ Len(diff) = max_diff_chars + MaxDiffOver
    /\ sent_diff = SubSeq(diff, 1, max_diff_chars) \o TruncationMarker
    /\ HasOp("api")

\* C13 witness of the boundary: a diff of exactly the budget has been sent whole
C13_WitnessBoundary ==
    /\ sent_diff # Unsent
    /\ Len(diff) = max_diff_chars
    /\ sent_diff = diff
    /\ HasOp("api")

=============================================================================
